---- MODULE Spec2Model ----
(* Model of frontend/src/scenes/insights/filters/AggregationSelect.tsx:    *)
(* the selector codec (getHogQLValue / hogQLToFilterValue), the option     *)
(* list built by AggregationSelectComponent, and the change handlers of    *)
(* the two binding wrappers.                                               *)
(*                                                                         *)
(* JavaScript strings are sequences of one-character strings.  JavaScript  *)
(* values are tagged records, so that undefined, null, numbers, NaN and    *)
(* strings can be compared with each other.  An object property that is    *)
(* not present is Absent; a property read turns Absent into Undefined.     *)
EXTENDS Integers, Sequences, FiniteSets, TLC

VARIABLES
    pc,                     \* position of the run: which call has been made
    encArgs,                \* arguments of getHogQLValue
    decArg,                 \* argument of hogQLToFilterValue
    encResult,              \* value returned by getHogQLValue
    decResult,              \* value returned by hogQLToFilterValue
    props,                  \* props of AggregationSelectComponent
    groupTypes,             \* groupsModel.groupTypes (group type indexes)
    needsUpgradeForGroups,  \* groupsAccessLogic.needsUpgradeForGroups
    canStartUsingGroups,    \* groupsAccessLogic.canStartUsingGroups
    baseValues,             \* baseValues of the last render
    optionSections,         \* optionSections[0] of the last render
    querySource,            \* insightVizDataLogic.querySource
    filters,                \* insightLogic.filters
    event,                  \* last selection event of the LemonSelect
    onChangeCalls,          \* arguments the wrapper's onChange got in it
    dispatched              \* store updates dispatched in it

vars == <<pc, encArgs, decArg, encResult, decResult, props, groupTypes,
          needsUpgradeForGroups, canStartUsingGroups, baseValues,
          optionSections, querySource, filters, event, onChangeCalls,
          dispatched>>

codecVars  == <<encArgs, decArg, encResult, decResult>>
renderVars == <<props, groupTypes, needsUpgradeForGroups,
                canStartUsingGroups, baseValues, optionSections>>
storeVars  == <<querySource, filters, event, onChangeCalls, dispatched>>

-----------------------------------------------------------------------------
(* Bounds of the checked inputs.                                           *)

MaxDigit      == 2   \* digit characters "0".."MaxDigit" occur in selectors
MaxDigits     == 2   \* a group selector carries 1..MaxDigits digits
MaxGroupIndex == 11  \* group indexes 0..MaxGroupIndex are encoded
MaxGroupTypes == 2   \* the registry holds at most this many group types

-----------------------------------------------------------------------------
(* JavaScript values.                                                      *)

Undefined == [t |-> "undefined"]
Null      == [t |-> "null"]
Absent    == [t |-> "absent"]
NaN       == [t |-> "NaN"]
Num(n)    == [t |-> "number", n |-> n]
Str(s)    == [t |-> "string", s |-> s]

\* a property read: a property that is not present reads as undefined
Read(v) == IF v = Absent THEN Undefined ELSE v

\* ToBoolean of the values that occur as conditions
Truthy(v) ==
    CASE v.t = "string" -> v.s # <<>>
      [] v.t = "number" -> v.n # 0
      [] OTHER          -> FALSE

-----------------------------------------------------------------------------
(* Strings.                                                                *)

DigitChar == <<"0", "1", "2", "3", "4", "5", "6", "7", "8", "9">>

IsDigit(c) == \E d \in 1..10 : DigitChar[d] = c

DigitValue(c) == (CHOOSE d \in 1..10 : DigitChar[d] = c) - 1

UNIQUE_USERS == <<"p", "e", "r", "s", "o", "n", "_", "i", "d">>

GROUP_PREFIX == <<"$", "g", "r", "o", "u", "p", "_">>

SESSION_ID == <<"p", "r", "o", "p", "e", "r", "t", "i", "e", "s", ".",
                "$", "s", "e", "s", "s", "i", "o", "n", "_", "i", "d">>

\* Number -> String of an integer, as a template literal prints it
RECURSIVE NatToString(_)
NatToString(n) ==
    IF n < 10 THEN <<DigitChar[n + 1]>>
    ELSE NatToString(n \div 10) \o <<DigitChar[(n % 10) + 1]>>

NumberToString(v) ==
    IF v = NaN THEN <<"N", "a", "N">>
    ELSE IF v.n < 0 THEN <<"-">> \o NatToString(0 - v.n)
    ELSE NatToString(v.n)

\* s has t as the substring that starts at position i
OccursAt(s, t, i) ==
    /\ i >= 1
    /\ i + Len(t) - 1 <= Len(s)
    /\ SubSeq(s, i, i + Len(t) - 1) = t

\* String.prototype.replace with a string pattern: the first occurrence only
Replace(s, t, r) ==
    IF \E i \in 1..Len(s) : OccursAt(s, t, i)
    THEN LET i == CHOOSE k \in 1..Len(s) :
                      /\ OccursAt(s, t, k)
                      /\ \A j \in 1..(k - 1) : ~OccursAt(s, t, j)
         IN  SubSeq(s, 1, i - 1) \o r \o SubSeq(s, i + Len(t), Len(s))
    ELSE s

\* the longest prefix of s made of digits
RECURSIVE DigitPrefix(_)
DigitPrefix(s) ==
    IF s # <<>> /\ IsDigit(Head(s))
    THEN <<Head(s)>> \o DigitPrefix(Tail(s))
    ELSE <<>>

RECURSIVE DigitsToNat(_, _)
DigitsToNat(s, acc) ==
    IF s = <<>> THEN acc
    ELSE DigitsToNat(Tail(s), acc * 10 + DigitValue(Head(s)))

\* parseInt(s) without radix: an optional sign, then the leading decimal
\* digits; NaN when there is none
ParseInt(s) ==
    LET neg  == s # <<>> /\ Head(s) = "-"
        body == IF s # <<>> /\ Head(s) \in {"-", "+"} THEN Tail(s) ELSE s
        ds   == DigitPrefix(body)
    IN  IF ds = <<>> THEN NaN
        ELSE IF neg THEN Num(0 - DigitsToNat(ds, 0))
        ELSE Num(DigitsToNat(ds, 0))

\* the pattern without its end anchor, /^\$group_[0-9]+/
MatchesGroupPatternUnanchored(s) ==
    /\ Len(s) > Len(GROUP_PREFIX)
    /\ SubSeq(s, 1, Len(GROUP_PREFIX)) = GROUP_PREFIX
    /\ IsDigit(s[Len(GROUP_PREFIX) + 1])

\* the pattern with * for +, /^\$group_[0-9]*$/
MatchesGroupPatternStar(s) ==
    /\ Len(s) >= Len(GROUP_PREFIX)
    /\ SubSeq(s, 1, Len(GROUP_PREFIX)) = GROUP_PREFIX
    /\ \A i \in (Len(GROUP_PREFIX) + 1)..Len(s) : IsDigit(s[i])

\* value.match(/^\$group_[0-9]+$/): the whole string is "$group_" followed
\* by one or more digits
MatchesGroupPattern(s) ==
    /\ Len(s) > Len(GROUP_PREFIX)
    /\ SubSeq(s, 1, Len(GROUP_PREFIX)) = GROUP_PREFIX
    /\ \A i \in (Len(GROUP_PREFIX) + 1)..Len(s) : IsDigit(s[i])

\* value?.match(...): undefined when value is undefined, so falsy
OptionalMatch(value) ==
    IF value \in {Undefined, Null} THEN FALSE
    ELSE MatchesGroupPattern(value.s)

-----------------------------------------------------------------------------
(* The codec.                                                              *)

Descriptor(gi, aq) == [groupIndex |-> gi, aggregationQuery |-> aq]

\* the first test written as a truthiness test, if (groupIndex)
getHogQLValueTruthy(groupIndex, aggregationQuery) ==
    IF Truthy(groupIndex)
    THEN Str(GROUP_PREFIX \o NumberToString(groupIndex))
    ELSE IF Truthy(aggregationQuery) THEN aggregationQuery
    ELSE Str(UNIQUE_USERS)

\* the two tests in the other order
getHogQLValueQueryFirst(groupIndex, aggregationQuery) ==
    IF Truthy(aggregationQuery) THEN aggregationQuery
    ELSE IF groupIndex # Undefined
    THEN Str(GROUP_PREFIX \o NumberToString(groupIndex))
    ELSE Str(UNIQUE_USERS)

getHogQLValue(groupIndex, aggregationQuery) ==
    IF groupIndex # Undefined
    THEN Str(GROUP_PREFIX \o NumberToString(groupIndex))
    ELSE IF Truthy(aggregationQuery) THEN aggregationQuery
    ELSE Str(UNIQUE_USERS)

hogQLToFilterValue(value) ==
    IF OptionalMatch(value)
    THEN Descriptor(ParseInt(Replace(value.s, GROUP_PREFIX, <<>>)), Absent)
    ELSE IF value = Str(UNIQUE_USERS) THEN Descriptor(Absent, Absent)
    ELSE Descriptor(Absent, value)

-----------------------------------------------------------------------------
(* Inputs.                                                                 *)

InputDigits == {DigitChar[d + 1] : d \in 0..MaxDigit}

DigitStrings ==
    UNION {[1..n -> InputDigits] : n \in 1..MaxDigits}

GroupSelectors == {GROUP_PREFIX \o ds : ds \in DigitStrings}

\* strings that are neither a fixed value nor a group selector
CustomSelectors ==
    { <<>>,
      SESSION_ID,
      <<"d", "i", "s", "t", "i", "n", "c", "t", "_", "i", "d">>,
      GROUP_PREFIX,
      GROUP_PREFIX \o <<"-", "1">>,
      GROUP_PREFIX \o <<"1", "a">>,
      <<"x">> \o GROUP_PREFIX \o <<"1">>,
      GROUP_PREFIX \o <<"1">> \o GROUP_PREFIX \o <<"2">>,
      <<"$", "G", "R", "O", "U", "P", "_", "1">>,
      UNIQUE_USERS \o <<" ">> }

SelectorStrings == {UNIQUE_USERS} \cup GroupSelectors \cup CustomSelectors

\* string | undefined
Selectors == {Undefined} \cup {Str(s) : s \in SelectorStrings}

\* number | undefined
GroupIndexes == {Undefined} \cup {Num(n) : n \in 0..MaxGroupIndex}

-----------------------------------------------------------------------------
(* The codec called on its own.                                            *)

IdleCodec ==
    /\ encArgs = [groupIndex |-> Undefined, aggregationQuery |-> Undefined]
    /\ decArg = Undefined
    /\ encResult = Undefined
    /\ decResult = Undefined

IdleRender ==
    /\ props = [value |-> Undefined, hogqlAvailable |-> FALSE]
    /\ groupTypes = <<>>
    /\ needsUpgradeForGroups = FALSE
    /\ canStartUsingGroups = FALSE
    /\ baseValues = <<>>
    /\ optionSections = Undefined

IdleStore ==
    /\ querySource = Undefined
    /\ filters = Undefined
    /\ event = Undefined
    /\ onChangeCalls = <<>>
    /\ dispatched = <<>>

CodecInit ==
    /\ pc = "start"
    /\ encArgs \in [groupIndex : GroupIndexes, aggregationQuery : Selectors]
    /\ decArg \in Selectors
    /\ encResult = Undefined
    /\ decResult = Undefined
    /\ IdleRender
    /\ IdleStore

\* getHogQLValue(g, q)
CallEncode ==
    /\ pc = "start"
    /\ encResult' = getHogQLValue(encArgs.groupIndex, encArgs.aggregationQuery)
    /\ pc' = "encoded"
    /\ UNCHANGED <<encArgs, decArg, decResult, renderVars, storeVars>>

\* hogQLToFilterValue(s)
CallDecode ==
    /\ pc = "start"
    /\ decResult' = hogQLToFilterValue(decArg)
    /\ pc' = "decoded"
    /\ UNCHANGED <<encArgs, decArg, encResult, renderVars, storeVars>>

\* hogQLToFilterValue(getHogQLValue(g, q))
DecodeEncoded ==
    /\ pc = "encoded"
    /\ decArg' = encResult
    /\ decResult' = hogQLToFilterValue(encResult)
    /\ pc' = "roundtrip"
    /\ UNCHANGED <<encArgs, encResult, renderVars, storeVars>>

CodecNext == CallEncode \/ CallDecode \/ DecodeEncoded

CodecSpec == CodecInit /\ [][CodecNext]_vars

-----------------------------------------------------------------------------
(* The option list of AggregationSelectComponent.                          *)

\* `$group_${groupType.group_type_index}`
GroupValue(groupType) ==
    Str(GROUP_PREFIX \o NumberToString(Num(groupType.group_type_index)))

\* the group values pushed whether or not group access is gated
RenderBaseValuesUngated(gts, needsUpgrade, canStart, hogqlAvailable) ==
    <<Str(UNIQUE_USERS)>>
    \o [i \in 1..Len(gts) |-> GroupValue(gts[i])]
    \o (IF hogqlAvailable THEN <<Str(SESSION_ID)>> ELSE <<>>)

\* baseValues once the option list is built
RenderBaseValues(gts, needsUpgrade, canStart, hogqlAvailable) ==
    <<Str(UNIQUE_USERS)>>
    \o (IF needsUpgrade \/ canStart THEN <<>>
        ELSE [i \in 1..Len(gts) |-> GroupValue(gts[i])])
    \o (IF hogqlAvailable THEN <<Str(SESSION_ID)>> ELSE <<>>)

\* baseValues.includes(value)
Includes(seq, v) == \E i \in 1..Len(seq) : seq[i] = v

UsersOption ==
    [value |-> Str(UNIQUE_USERS), label |-> [text |-> "Unique users"]]

\* label: `Unique ${aggregationLabel(group_type_index).plural}`
GroupOption(groupType) ==
    [value |-> GroupValue(groupType),
     label |-> [text |-> "Unique", plural |-> groupType.group_type_index]]

SessionsOption ==
    [value |-> Str(SESSION_ID), label |-> [text |-> "Unique sessions"]]

\* the trailing entry: a nested section holding the one option whose menu
\* label is the HogQLEditor
CustomEntry(value, bases) ==
    [label   |-> [text |-> "Custom HogQL expression"],
     options |-> << [value  |-> IF ~Truthy(value) \/ Includes(bases, value)
                                THEN Str(<<>>) ELSE value,
                     label  |-> [mono |-> value],
                     editor |-> [value |-> value]] >>]

\* gating on needsUpgradeForGroups alone
RenderOptionSectionUpgradeOnly(value, gts, needsUpgrade, canStart, hogqlAvailable) ==
    [title   |-> "Event Aggregation",
     footer  |-> IF needsUpgrade
                 THEN [needsUpgrade |-> needsUpgrade] ELSE Absent,
     options |-> <<UsersOption>>
                 \o (IF needsUpgrade THEN <<>>
                     ELSE [i \in 1..Len(gts) |-> GroupOption(gts[i])])
                 \o (IF hogqlAvailable THEN <<SessionsOption>> ELSE <<>>)
                 \o <<CustomEntry(value,
                        RenderBaseValues(gts, needsUpgrade, canStart,
                                         hogqlAvailable))>>]

\* optionSections[0] once the option list is built
RenderOptionSection(value, gts, needsUpgrade, canStart, hogqlAvailable) ==
    [title   |-> "Event Aggregation",
     footer  |-> IF needsUpgrade \/ canStart
                 THEN [needsUpgrade |-> needsUpgrade] ELSE Absent,
     options |-> <<UsersOption>>
                 \o (IF needsUpgrade \/ canStart THEN <<>>
                     ELSE [i \in 1..Len(gts) |-> GroupOption(gts[i])])
                 \o (IF hogqlAvailable THEN <<SessionsOption>> ELSE <<>>)
                 \o <<CustomEntry(value,
                        RenderBaseValues(gts, needsUpgrade, canStart,
                                         hogqlAvailable))>>]

\* the registry: group types with distinct indexes, in any order
GroupTypeIndexes == 0..(MaxGroupTypes - 1)

Registries ==
    { gts \in UNION {[1..n -> [group_type_index : GroupTypeIndexes]] :
                        n \in 0..MaxGroupTypes} :
        \A i, j \in 1..Len(gts) :
            gts[i].group_type_index = gts[j].group_type_index => i = j }

RenderInit ==
    /\ pc = "start"
    /\ props \in [value : Selectors, hogqlAvailable : BOOLEAN]
    /\ groupTypes \in Registries
    /\ needsUpgradeForGroups \in BOOLEAN
    /\ canStartUsingGroups \in BOOLEAN
    /\ baseValues = <<>>
    /\ optionSections = Undefined
    /\ IdleCodec
    /\ IdleStore

\* AggregationSelectComponent builds baseValues and optionSections
Render ==
    /\ pc = "start"
    /\ baseValues' = RenderBaseValues(groupTypes, needsUpgradeForGroups,
                                      canStartUsingGroups, props.hogqlAvailable)
    /\ optionSections' = RenderOptionSection(props.value, groupTypes,
                              needsUpgradeForGroups, canStartUsingGroups,
                              props.hogqlAvailable)
    /\ pc' = "rendered"
    /\ UNCHANGED <<props, groupTypes, needsUpgradeForGroups,
                   canStartUsingGroups, codecVars, storeVars>>

RenderNext == Render

RenderSpec == RenderInit /\ [][RenderNext]_vars

-----------------------------------------------------------------------------
(* The binding wrappers and their stores.                                  *)

\* ~/queries/utils
isInsightQueryNode(node) == node.kind \in {"TrendsQuery", "FunnelsQuery"}

isFunnelsQuery(node) == node.kind = "FunnelsQuery"

\* scenes/insights/sharedUtils
isFunnelsFilter(f) == f.insight = "FUNNELS"

FunnelsFilter(hogql, layout) ==
    [funnel_aggregate_by_hogql |-> hogql, layout |-> layout]

\* { ...funnelsFilter }: the properties of funnelsFilter, none when it is
\* undefined
Spread(funnelsFilter) ==
    IF funnelsFilter \in {Absent, Undefined}
    THEN FunnelsFilter(Absent, Absent)
    ELSE funnelsFilter

\* querySource.funnelsFilter?.funnel_aggregate_by_hogql
FunnelAggregateByHogQL(node) ==
    IF node.funnelsFilter \in {Absent, Undefined} THEN Undefined
    ELSE Read(node.funnelsFilter.funnel_aggregate_by_hogql)

\* the value computed without the funnel expression
ValueDataExplorationNoQuery(node) ==
    getHogQLValue(Read(node.aggregation_group_type_index), Undefined)

\* the value AggregationSelectDataExploration passes to the component
ValueDataExploration(node) ==
    getHogQLValue(Read(node.aggregation_group_type_index),
                  IF isFunnelsQuery(node) THEN FunnelAggregateByHogQL(node)
                  ELSE Undefined)

\* the value AggregationSelect passes to the component
ValueLegacy(f) ==
    getHogQLValue(Read(f.aggregation_group_type_index),
                  IF isFunnelsFilter(f) THEN Read(f.funnel_aggregate_by_hogql)
                  ELSE Undefined)

\* the funnel branch storing the selector itself as the expression
OnChangeDataExplorationRaw(node, value) ==
    LET d == hogQLToFilterValue(value)
        groupIndex == Read(d.groupIndex)
    IN  IF isFunnelsQuery(node)
        THEN << [aggregation_group_type_index |-> groupIndex,
                 funnelsFilter |->
                     [Spread(node.funnelsFilter)
                        EXCEPT !.funnel_aggregate_by_hogql = value]] >>
        ELSE << [aggregation_group_type_index |-> groupIndex,
                 funnelsFilter |-> Absent] >>

\* onChange of AggregationSelectDataExploration: the updates it passes to
\* updateQuerySource
OnChangeDataExploration(node, value) ==
    LET d == hogQLToFilterValue(value)
        aggregationQuery == Read(d.aggregationQuery)
        groupIndex == Read(d.groupIndex)
    IN  IF isFunnelsQuery(node)
        THEN << [aggregation_group_type_index |-> groupIndex,
                 funnelsFilter |->
                     [Spread(node.funnelsFilter)
                        EXCEPT !.funnel_aggregate_by_hogql = aggregationQuery]] >>
        ELSE << [aggregation_group_type_index |-> groupIndex,
                 funnelsFilter |-> Absent] >>

\* the funnel branch leaving funnel_aggregate_by_hogql out
OnChangeLegacyIndexOnly(f, value) ==
    LET d == hogQLToFilterValue(value)
        groupIndex == Read(d.groupIndex)
    IN  << [f EXCEPT !.aggregation_group_type_index = groupIndex] >>

\* onChange of AggregationSelect: the filters it passes to setFilters
OnChangeLegacy(f, value) ==
    LET d == hogQLToFilterValue(value)
        aggregationQuery == Read(d.aggregationQuery)
        groupIndex == Read(d.groupIndex)
    IN  IF isFunnelsFilter(f)
        THEN << [f EXCEPT !.aggregation_group_type_index = groupIndex,
                          !.funnel_aggregate_by_hogql = aggregationQuery] >>
        ELSE << [f EXCEPT !.aggregation_group_type_index = groupIndex] >>

\* onChange of the LemonSelect without its null test
LemonSelectOnChangeUnguarded(newValue) == <<newValue>>

\* onChange of the LemonSelect: the calls it makes to the wrapper's onChange
LemonSelectOnChange(newValue) ==
    IF newValue # Null THEN <<newValue>> ELSE <<>>

\* insightVizDataLogic.updateQuerySource: the properties of the update
\* replace those of the query source
updateQuerySource(node, update) ==
    [node EXCEPT
        !.aggregation_group_type_index =
            IF update.aggregation_group_type_index = Absent THEN @
            ELSE update.aggregation_group_type_index,
        !.funnelsFilter =
            IF update.funnelsFilter = Absent THEN @ ELSE update.funnelsFilter]

\* funnelLogic.setFilters: the filters given become the filters
setFilters(f, newFilters) == newFilters

\* the updates of a sequence applied in order
RECURSIVE ApplyUpdates(_, _)
ApplyUpdates(node, updates) ==
    IF updates = <<>> THEN node
    ELSE ApplyUpdates(updateQuerySource(node, Head(updates)), Tail(updates))

RECURSIVE ApplyFilters(_, _)
ApplyFilters(f, updates) ==
    IF updates = <<>> THEN f
    ELSE ApplyFilters(setFilters(f, Head(updates)), Tail(updates))

\* the updates made by the calls of a sequence, in order
RECURSIVE DispatchesDataExploration(_, _)
DispatchesDataExploration(node, calls) ==
    IF calls = <<>> THEN <<>>
    ELSE OnChangeDataExploration(node, Head(calls))
         \o DispatchesDataExploration(node, Tail(calls))

RECURSIVE DispatchesLegacy(_, _)
DispatchesLegacy(f, calls) ==
    IF calls = <<>> THEN <<>>
    ELSE OnChangeLegacy(f, Head(calls)) \o DispatchesLegacy(f, Tail(calls))

\* values a selection event carries: string | null, and undefined
EventValues == {Null} \cup Selectors

HORIZONTAL == <<"h", "o", "r", "i", "z", "o", "n", "t", "a", "l">>

StoredIndexes == {Absent, Num(1)}

StoredExpressions ==
    {Absent, Str(<<"d", "i", "s", "t", "i", "n", "c", "t", "_", "i", "d">>)}

QuerySources ==
    [kind : {"TrendsQuery", "FunnelsQuery", "DataTableNode"},
     aggregation_group_type_index : StoredIndexes,
     funnelsFilter : {Absent} \cup
         {FunnelsFilter(q, Str(HORIZONTAL)) : q \in StoredExpressions}]

Filters ==
    [insight : {"TRENDS", "FUNNELS"},
     aggregation_group_type_index : StoredIndexes,
     funnel_aggregate_by_hogql : StoredExpressions,
     funnel_viz_type : {"steps"}]

\* the page mounts one of the two wrappers; the store of the other one is
\* not loaded
Init ==
    /\ \/ /\ pc = "AggregationSelectDataExploration"
          /\ querySource \in QuerySources
          /\ filters = Undefined
       \/ /\ pc = "AggregationSelect"
          /\ filters \in Filters
          /\ querySource = Undefined
    /\ event = Undefined
    /\ onChangeCalls = <<>>
    /\ dispatched = <<>>
    /\ IdleCodec
    /\ IdleRender

\* a selection event in the LemonSelect of AggregationSelectDataExploration
SelectDataExploration(newValue) ==
    /\ pc = "AggregationSelectDataExploration"
    /\ isInsightQueryNode(querySource)
    /\ event' = [wrapper |-> pc, newValue |-> newValue]
    /\ onChangeCalls' = LemonSelectOnChange(newValue)
    /\ dispatched' = DispatchesDataExploration(querySource, onChangeCalls')
    /\ querySource' = ApplyUpdates(querySource, dispatched')
    /\ UNCHANGED <<pc, filters, codecVars, renderVars>>

\* a selection event in the LemonSelect of AggregationSelect
SelectLegacy(newValue) ==
    /\ pc = "AggregationSelect"
    /\ event' = [wrapper |-> pc, newValue |-> newValue]
    /\ onChangeCalls' = LemonSelectOnChange(newValue)
    /\ dispatched' = DispatchesLegacy(filters, onChangeCalls')
    /\ filters' = ApplyFilters(filters, dispatched')
    /\ UNCHANGED <<pc, querySource, codecVars, renderVars>>

Next ==
    \/ \E newValue \in EventValues : SelectDataExploration(newValue)
    \/ \E newValue \in EventValues : SelectLegacy(newValue)

Spec == Init /\ [][Next]_vars

-----------------------------------------------------------------------------
(* Properties of the codec.                                                *)

\* the integer a string of digits denotes
RECURSIVE DecimalValue(_)
DecimalValue(ds) ==
    IF ds = <<>> THEN 0
    ELSE 10 * DecimalValue(SubSeq(ds, 1, Len(ds) - 1))
         + DigitValue(ds[Len(ds)])

\* v is the string "$group_" followed by one or more digits and nothing else
IsGroupSelector(v) ==
    /\ v.t = "string"
    /\ Len(v.s) > 7
    /\ SubSeq(v.s, 1, 7) = <<"$", "g", "r", "o", "u", "p", "_">>
    /\ \A i \in 8..Len(v.s) : v.s[i] \in {DigitChar[d] : d \in 1..10}

GroupDigits(v) == SubSeq(v.s, 8, Len(v.s))

IsNonEmptyString(v) == v.t = "string" /\ Len(v.s) > 0

OnlyGroupIndex(n)       == [groupIndex |-> n, aggregationQuery |-> Absent]
OnlyAggregationQuery(q) == [groupIndex |-> Absent, aggregationQuery |-> q]
EmptyDescriptor         == [groupIndex |-> Absent, aggregationQuery |-> Absent]

\* C1 as stated: decode(encode(g, q)) is {groupIndex: g} when g is defined,
\* else {aggregationQuery: q} for every non-empty q, else {}.
C1_RoundTripAsStated ==
    pc = "roundtrip" =>
        LET g == encArgs.groupIndex
            q == encArgs.aggregationQuery
        IN  decResult = IF g # Undefined THEN OnlyGroupIndex(g)
                        ELSE IF IsNonEmptyString(q) THEN OnlyAggregationQuery(q)
                        ELSE EmptyDescriptor

\* C1 amended: decode(encode(g, q)) is {groupIndex: g} when g is defined;
\* otherwise, for a non-empty q, it is {} when q is "person_id",
\* {groupIndex: N} when q is "$group_" followed by digits that denote N, and
\* {aggregationQuery: q} for every other q; otherwise it is {}.
C1_RoundTrip ==
    pc = "roundtrip" =>
        LET g == encArgs.groupIndex
            q == encArgs.aggregationQuery
        IN  decResult =
                IF g # Undefined THEN OnlyGroupIndex(g)
                ELSE IF ~IsNonEmptyString(q) THEN EmptyDescriptor
                ELSE IF q = Str(UNIQUE_USERS) THEN EmptyDescriptor
                ELSE IF IsGroupSelector(q)
                     THEN OnlyGroupIndex(Num(DecimalValue(GroupDigits(q))))
                ELSE OnlyAggregationQuery(q)

C1_Witness ==
    /\ pc = "roundtrip"
    /\ encArgs.groupIndex = Undefined
    /\ encArgs.aggregationQuery = Str(GROUP_PREFIX \o <<"0", "1">>)
    /\ decResult = OnlyGroupIndex(Num(1))

\* C2: encode gives "$group_" followed by the decimal form of groupIndex
\* whenever groupIndex is present (0 included), whatever aggregationQuery
\* is; else aggregationQuery verbatim when it is a non-empty string; else
\* "person_id".
C2_EncodeReference ==
    pc \in {"encoded", "roundtrip"} =>
        LET g == encArgs.groupIndex
            q == encArgs.aggregationQuery
        IN  IF g # Undefined
            THEN /\ IsGroupSelector(encResult)
                 /\ DecimalValue(GroupDigits(encResult)) = g.n
                 /\ Len(GroupDigits(encResult)) > 1
                        => Head(GroupDigits(encResult)) # "0"
            ELSE IF IsNonEmptyString(q) THEN encResult = q
            ELSE encResult = Str(UNIQUE_USERS)

C2_Witness ==
    /\ pc = "encoded"
    /\ encArgs.groupIndex = Num(0)
    /\ IsNonEmptyString(encArgs.aggregationQuery)
    /\ encResult = Str(GROUP_PREFIX \o <<"0">>)

\* C3: decode gives {groupIndex: N} for a selector that is exactly "$group_"
\* followed by digits denoting N, {} for "person_id", and
\* {aggregationQuery: selector} for every other selector, the empty string
\* and undefined included.
C3_DecodeReference ==
    pc \in {"decoded", "roundtrip"} =>
        decResult = IF IsGroupSelector(decArg)
                    THEN OnlyGroupIndex(Num(DecimalValue(GroupDigits(decArg))))
                    ELSE IF decArg = Str(UNIQUE_USERS) THEN EmptyDescriptor
                    ELSE OnlyAggregationQuery(decArg)

C3_Witness ==
    /\ pc = "decoded"
    /\ decArg = Str(GROUP_PREFIX \o <<"1", "2">>)
    /\ decResult = OnlyGroupIndex(Num(12))

MalformedGroupSelectors ==
    { Str(GROUP_PREFIX),
      Str(GROUP_PREFIX \o <<"-", "1">>),
      Str(GROUP_PREFIX \o <<"1", "a">>),
      Str(<<"x">> \o GROUP_PREFIX \o <<"1">>) }

\* C4: decode returns a descriptor for every selector; a groupIndex it
\* returns is a non-negative integer, never NaN, and is returned only for an
\* all-digit suffix; "$group_", "$group_-1", "$group_1a" and "x$group_1"
\* come back as the custom aggregationQuery.
C4_DecodeTotal ==
    pc \in {"decoded", "roundtrip"} =>
        /\ DOMAIN decResult = {"groupIndex", "aggregationQuery"}
        /\ \/ decResult.groupIndex = Absent
           \/ /\ decResult.groupIndex.t = "number"
              /\ decResult.groupIndex.n \in Nat
              /\ IsGroupSelector(decArg)
        /\ decResult.aggregationQuery \in {Absent, Undefined}
              \/ decResult.aggregationQuery.t = "string"
        /\ decArg \in MalformedGroupSelectors
              => decResult = OnlyAggregationQuery(decArg)

C4_Witness ==
    /\ pc = "decoded"
    /\ decArg = Str(GROUP_PREFIX \o <<"-", "1">>)
    /\ decResult = OnlyAggregationQuery(decArg)

-----------------------------------------------------------------------------
(* Properties of the option list.                                          *)

Gated == needsUpgradeForGroups \/ canStartUsingGroups

\* the selector text of group index i
GroupSelectorOf(i) ==
    CHOOSE v \in {Str(s) : s \in GroupSelectors} \cup
                 {Str(GROUP_PREFIX \o <<DigitChar[d]>>) : d \in 1..10} :
        /\ DecimalValue(GroupDigits(v)) = i
        /\ Len(GroupDigits(v)) > 1 => Head(GroupDigits(v)) # "0"

\* the fixed values offered in this render
OfferedValues ==
    {Str(UNIQUE_USERS)}
    \cup (IF Gated THEN {}
          ELSE {GroupSelectorOf(groupTypes[i].group_type_index) :
                    i \in 1..Len(groupTypes)})
    \cup (IF props.hogqlAvailable THEN {Str(SESSION_ID)} ELSE {})

LastOption == optionSections.options[Len(optionSections.options)]

\* the values of the entries of the list, the custom entry's last
EntryValues ==
    [i \in 1..Len(optionSections.options) |->
        IF i < Len(optionSections.options)
        THEN optionSections.options[i].value
        ELSE LastOption.options[1].value]

\* C8: the custom entry's value is the empty string when the current
\* selector is absent, empty or one of the fixed values offered in this
\* render, and the current selector otherwise; so at most one entry has a
\* value equal to a non-empty current selector.
C8_CustomEntryValue ==
    pc = "rendered" =>
        /\ Len(LastOption.options) = 1
        /\ LastOption.options[1].value =
              IF \/ props.value = Undefined
                 \/ props.value = Str(<<>>)
                 \/ props.value \in OfferedValues
              THEN Str(<<>>) ELSE props.value
        /\ IsNonEmptyString(props.value) =>
              Cardinality({i \in DOMAIN EntryValues :
                              EntryValues[i] = props.value}) <= 1

C8_Witness ==
    /\ pc = "rendered"
    /\ Gated
    /\ Len(groupTypes) > 0
    /\ props.value = GroupSelectorOf(groupTypes[1].group_type_index)
    /\ LastOption.options[1].value = props.value

\* C9: the list starts with the "person_id" option and ends with the custom
\* entry; between them come one "$group_<i>" option per registered group
\* type, in registry order, exactly when neither needsUpgradeForGroups nor
\* canStartUsingGroups holds (the footer is set instead when one does), and
\* then the "properties.$session_id" option exactly when hogqlAvailable.
C9_OptionListComposition ==
    pc = "rendered" =>
        LET opts   == optionSections.options
            nGroup == IF Gated THEN 0 ELSE Len(groupTypes)
            nSess  == IF props.hogqlAvailable THEN 1 ELSE 0
        IN  /\ Len(opts) = 1 + nGroup + nSess + 1
            /\ opts[1].value = Str(UNIQUE_USERS)
            /\ opts[1].label = [text |-> "Unique users"]
            /\ opts[Len(opts)].label = [text |-> "Custom HogQL expression"]
            /\ \A i \in 1..nGroup :
                  /\ opts[1 + i].value =
                        GroupSelectorOf(groupTypes[i].group_type_index)
                  /\ opts[1 + i].label.text = "Unique"
                  /\ opts[1 + i].label.plural = groupTypes[i].group_type_index
            /\ nSess = 1 =>
                  /\ opts[1 + nGroup + 1].value = Str(SESSION_ID)
                  /\ opts[1 + nGroup + 1].label = [text |-> "Unique sessions"]
            /\ (optionSections.footer # Absent) <=> Gated
            /\ Gated =>
                  optionSections.footer = [needsUpgrade |-> needsUpgradeForGroups]

C9_Witness ==
    /\ pc = "rendered"
    /\ ~needsUpgradeForGroups
    /\ ~canStartUsingGroups
    /\ props.hogqlAvailable
    /\ Len(groupTypes) = 2
    /\ groupTypes[1].group_type_index > groupTypes[2].group_type_index
    /\ Len(optionSections.options) = 5
    /\ optionSections.options[2].value = Str(GROUP_PREFIX \o <<"1">>)
    /\ optionSections.options[4].value = Str(SESSION_ID)

-----------------------------------------------------------------------------
(* Properties of the binding wrappers.                                     *)

DataExplorationMounted == pc = "AggregationSelectDataExploration"

\* the query or filter of the mounted wrapper is a funnel
OnFunnel ==
    IF DataExplorationMounted THEN isFunnelsQuery(querySource)
    ELSE isFunnelsFilter(filters)

\* the descriptor the mounted wrapper reads from its store on a render
StoredDescriptor ==
    IF DataExplorationMounted
    THEN [groupIndex |-> Read(querySource.aggregation_group_type_index),
          aggregationQuery |->
              IF querySource.kind = "FunnelsQuery"
              THEN FunnelAggregateByHogQL(querySource) ELSE Undefined]
    ELSE [groupIndex |-> Read(filters.aggregation_group_type_index),
          aggregationQuery |->
              IF filters.insight = "FUNNELS"
              THEN Read(filters.funnel_aggregate_by_hogql) ELSE Undefined]

\* the selector the mounted wrapper derives on a render
DerivedValue ==
    IF DataExplorationMounted THEN ValueDataExploration(querySource)
    ELSE ValueLegacy(filters)

\* at most one of the two fields is meaningfully set
AtMostOneSet(d) ==
    ~ /\ Read(d.groupIndex) # Undefined
      /\ IsNonEmptyString(Read(d.aggregationQuery))

\* the last event was passed on to the wrapper's change handler
Handled == event # Undefined /\ event.newValue # Null

\* C5: every descriptor decode returns has at most one of groupIndex and
\* aggregationQuery meaningfully set, and so has the descriptor the wrapper
\* reads from its store after a change event it handled, and after every
\* later event, on a funnel or not.
C5_DescriptorInvariant ==
    [][ /\ Handled' => AtMostOneSet(hogQLToFilterValue(event'.newValue))
        /\ Handled' => AtMostOneSet(StoredDescriptor')
        /\ AtMostOneSet(StoredDescriptor) => AtMostOneSet(StoredDescriptor')
      ]_vars

C5_Witness ==
    /\ Handled
    /\ OnFunnel
    /\ event.newValue = Str(SESSION_ID)
    /\ StoredDescriptor = [groupIndex |-> Undefined,
                           aggregationQuery |-> Str(SESSION_ID)]

\* C6: a null selection event calls no change handler, dispatches no store
\* update and leaves the store as it is; any other selection event calls
\* the change handler once, with the value of the event, and dispatches one
\* store update.
C6_NullEventIgnored ==
    [][ event' # Undefined =>
          IF event'.newValue = Null
          THEN /\ onChangeCalls' = <<>>
               /\ dispatched' = <<>>
               /\ UNCHANGED <<querySource, filters>>
          ELSE /\ onChangeCalls' = <<event'.newValue>>
               /\ Len(dispatched') = 1
      ]_vars

C6_Witness ==
    /\ event # Undefined
    /\ event.newValue = Null
    /\ onChangeCalls = <<>>
    /\ dispatched = <<>>

\* C7: on a handled change to selector s with d = decode(s): on a funnel the
\* one update sets the group index to d.groupIndex and
\* funnel_aggregate_by_hogql to d.aggregationQuery and keeps every other
\* field; off a funnel it sets the group index to d.groupIndex only and
\* funnel_aggregate_by_hogql keeps its value.
C7_WriteBack ==
    [][ Handled' =>
          LET d  == hogQLToFilterValue(event'.newValue)
              gi == Read(d.groupIndex)
              aq == Read(d.aggregationQuery)
          IN  /\ Len(dispatched') = 1
              /\ IF DataExplorationMounted
                 THEN /\ querySource'.kind = querySource.kind
                      /\ querySource'.aggregation_group_type_index = gi
                      /\ dispatched'[1].aggregation_group_type_index = gi
                      /\ IF querySource.kind = "FunnelsQuery"
                         THEN /\ querySource'.funnelsFilter
                                    = dispatched'[1].funnelsFilter
                              /\ querySource'.funnelsFilter
                                    .funnel_aggregate_by_hogql = aq
                              /\ Read(querySource'.funnelsFilter.layout)
                                    = IF querySource.funnelsFilter = Absent
                                      THEN Undefined
                                      ELSE Read(querySource.funnelsFilter.layout)
                         ELSE /\ dispatched'[1].funnelsFilter = Absent
                              /\ querySource'.funnelsFilter
                                    = querySource.funnelsFilter
                 ELSE /\ filters' = dispatched'[1]
                      /\ filters'.insight = filters.insight
                      /\ filters'.funnel_viz_type = filters.funnel_viz_type
                      /\ filters'.aggregation_group_type_index = gi
                      /\ filters'.funnel_aggregate_by_hogql
                            = IF filters.insight = "FUNNELS" THEN aq
                              ELSE filters.funnel_aggregate_by_hogql
      ]_vars

C7_Witness ==
    /\ Handled
    /\ ~OnFunnel
    /\ event.newValue = Str(SESSION_ID)
    /\ StoredDescriptor = [groupIndex |-> Undefined,
                           aggregationQuery |-> Undefined]
    /\ DerivedValue = Str(UNIQUE_USERS)

\* C10 as stated: on a funnel, after a handled change to a non-empty
\* selector s the selector derived on the next render is s; after a change
\* to the empty or undefined selector it is "person_id".
C10_SelectionStableAsStated ==
    (Handled /\ OnFunnel) =>
        DerivedValue = IF IsNonEmptyString(event.newValue)
                       THEN event.newValue ELSE Str(UNIQUE_USERS)

\* C10 amended: on a funnel, after a handled change to a non-empty selector
\* s the selector derived on the next render is s, except that for s equal
\* to "$group_" followed by digits it is "$group_" followed by the decimal
\* form, without leading zeros, of the number the digits denote; after a
\* change to the empty or undefined selector it is "person_id".
C10_SelectionStable ==
    (Handled /\ OnFunnel) =>
        LET s == event.newValue
        IN  IF ~IsNonEmptyString(s) THEN DerivedValue = Str(UNIQUE_USERS)
            ELSE IF IsGroupSelector(s)
            THEN /\ IsGroupSelector(DerivedValue)
                 /\ DecimalValue(GroupDigits(DerivedValue))
                        = DecimalValue(GroupDigits(s))
                 /\ Len(GroupDigits(DerivedValue)) > 1
                        => Head(GroupDigits(DerivedValue)) # "0"
                 /\ (Len(GroupDigits(s)) = 1 \/ Head(GroupDigits(s)) # "0")
                        => DerivedValue = s
            ELSE DerivedValue = s

C10_Witness ==
    /\ Handled
    /\ OnFunnel
    /\ event.newValue = Str(GROUP_PREFIX \o <<"0", "1">>)
    /\ DerivedValue = Str(GROUP_PREFIX \o <<"1">>)

====
